---- MODULE Spec2Model ----
(***************************************************************************)
(* Model of src/components/CheckIn/TableRow.tsx: one row of the event      *)
(* check-in table.  The row offers either the "Check In" button            *)
(* (markCheckIn) or the "Download Tag" button (notify -> generateTag).     *)
(* Every click starts an independent asynchronous invocation; each         *)
(* invocation keeps the trace of the calls it made on its collaborators    *)
(* (toast, refetch, generate, URL.createObjectURL, window.open).           *)
(***************************************************************************)
EXTENDS Integers, Sequences, FiniteSets, TLC

\* ------------------------------------------------------------------ bounds
MaxInvocations == 3 \* clicks explored, on "Check In" and "Download Tag" together
MaxNameLen == 3     \* longest data.name explored

\* ------------------------------------------------------- JavaScript values
NULL == "null"
UNDEFINED == "undefined"
Marker == "2024-01-01T00:00:00Z"

Whitespace == {" "}
Chars == Whitespace \cup {"a"}

RECURSIVE StringsUpTo(_)
StringsUpTo(n) ==
  IF n = 0 THEN {<<>>}
  ELSE LET S == StringsUpTo(n - 1)
       IN  S \cup {Append(s, c) : s \in {x \in S : Len(x) = n - 1}, c \in Chars}

JsString(s) == [type |-> "string", chars |-> s]
JsNull == [type |-> "null", chars |-> <<>>]
JsUndefined == [type |-> "undefined", chars |-> <<>>]
JsNumber == [type |-> "number", chars |-> <<>>]     \* a truthy non-string, e.g. 42

Names == {JsString(s) : s \in StringsUpTo(MaxNameLen)} \cup {JsNull, JsUndefined, JsNumber}
UserIds == {"u1"}
EventIds == {"e1"}
CheckInValues == {NULL, UNDEFINED, Marker}

\* String.prototype.trim
RECURSIVE TrimStart(_)
TrimStart(s) ==
  IF s = <<>> THEN s
  ELSE IF Head(s) \in Whitespace THEN TrimStart(Tail(s)) ELSE s

RECURSIVE TrimEnd(_)
TrimEnd(s) ==
  IF s = <<>> THEN s
  ELSE IF s[Len(s)] \in Whitespace THEN TrimEnd(SubSeq(s, 1, Len(s) - 1)) ELSE s

Trim(s) == TrimEnd(TrimStart(s))

\* JavaScript truthiness of the values a name can take
Falsy(v) == v.type \in {"null", "undefined"} \/ (v.type = "string" /\ v.chars = <<>>)

\* t(key) of react-i18next: the translated text of a key (never empty)
Tr(key) == <<key>>

\* thrown / rejected values
Err(m) == [isError |-> TRUE, message |-> m]
NonError == [isError |-> FALSE, message |-> <<>>]
Msgs == {<<"network error">>, <<"already checked in">>}
Errors == {Err(m) : m \in Msgs}
GeneratorErrors == {Err(<<"template malformed">>)}
Thrown == GeneratorErrors \cup {NonError}
DeliveryErrors == {Err(<<"delivery failed">>)}
RefetchErrors == {Err(<<"refetch failed">>)}
NoErr == [isError |-> FALSE, message |-> <<"-">>]

\* trace events
Toast(type, text) == [ev |-> "toast", type |-> type, text |-> text]
Call(name) == [ev |-> name, type |-> "", text |-> <<>>]

IsToast(e, type) == e.ev = "toast" /\ e.type = type
NumToasts(tr, type) == Cardinality({k \in 1..Len(tr) : IsToast(tr[k], type)})
NumCalls(tr, name) == Cardinality({k \in 1..Len(tr) : tr[k].ev = name})

tagTemplate == "tagTemplate"

\* ------------------------------------------------------------------- state
VARIABLES
  data,            \* the `data` prop: the row's check-in record
  server,          \* check-in status held by the Remote Check-In Service
  refreshPending,  \* refetches requested from the owner and not yet delivered
  clicks,          \* clicks made on the "Check In" button
  calls,           \* markCheckIn invocations, in click order
  tags             \* notify/generateTag invocations, in click order

vars == <<data, server, refreshPending, clicks, calls, tags>>

\* -------------------------------------------------------------- rendering
\* TableRow's JSX: data.checkIn !== null ? <download tag> : <check in>
ShowsDownloadTag(d) == d.checkIn # NULL
ShowsCheckIn(d) == ~(d.checkIn # NULL)
RowState(d) == IF ShowsDownloadTag(d) THEN "CHECKED_IN" ELSE "NOT_CHECKED_IN"

\* ------------------------------------------------------------ markCheckIn
\* variables of the MARK_CHECKIN mutation
MutationVariables(d) == [userId |-> d.userId, eventId |-> d.eventId]

\* variant: a click is dropped while an earlier request is in flight
RequestsOnClickDeduplicated(d, cs) ==
  IF \E i \in 1..Len(cs) : cs[i].pc = "inflight" THEN <<>> ELSE <<MutationVariables(d)>>

\* the requests one click issues, given the invocations made so far
RequestsOnClick(d, cs) == <<MutationVariables(d)>>

NewCall(v) ==
  [vars |-> v, mutation |-> "inflight", pc |-> "inflight", err |-> NoErr,
   chain |-> "pending", trace |-> <<Call("mutate")>>]

\* variant: the click marks the row checked in before the mutation responds
markCheckInOptimistic ==
  /\ ShowsCheckIn(data)
  /\ clicks + Len(tags) < MaxInvocations
  /\ clicks' = clicks + 1
  /\ calls' = Append(calls, NewCall(MutationVariables(data)))
  /\ data' = [data EXCEPT !.checkIn = Marker]
  /\ UNCHANGED <<server, refreshPending, tags>>

\* onClick={markCheckIn}: the button exists only in the "not checked in" branch
markCheckIn ==
  /\ ShowsCheckIn(data)
  /\ clicks + Len(tags) < MaxInvocations
  /\ clicks' = clicks + 1
  /\ LET reqs == RequestsOnClick(data, calls)
     IN  calls' = calls \o [k \in 1..Len(reqs) |-> NewCall(reqs[k])]
  /\ UNCHANGED <<data, server, refreshPending, tags>>

\* the Remote Check-In Service records the attendee and the mutation resolves
MutationSucceeds(i) ==
  /\ calls[i].pc = "inflight"
  /\ server' = Marker
  /\ calls' = [calls EXCEPT ![i].mutation = "ok", ![i].pc = "then"]
  /\ UNCHANGED <<data, refreshPending, clicks, tags>>

\* the mutation rejects with an error carrying a message
MutationFails(i, e) ==
  /\ calls[i].pc = "inflight"
  /\ calls' = [calls EXCEPT ![i].mutation = "failed", ![i].pc = "catch", ![i].err = e]
  /\ UNCHANGED <<data, server, refreshPending, clicks, tags>>

\* variant: the success handler marks the row checked in itself
ThenHandlerFlipsLocally(i, r) ==
  /\ calls[i].pc = "then"
  /\ calls' = [calls EXCEPT ![i].pc = "done", ![i].chain = "fulfilled",
         ![i].trace = calls[i].trace \o <<Toast("success", Tr("checkedInSuccessfully"))>>]
  /\ data' = [data EXCEPT !.checkIn = Marker]
  /\ UNCHANGED <<server, refreshPending, clicks, tags>>

\* variant: refetch is called before the success notification
ThenHandlerRefetchFirst(i, r) ==
  /\ calls[i].pc = "then"
  /\ LET tr == calls[i].trace \o <<Call("refetch"), Toast("success", Tr("checkedInSuccessfully"))>>
     IN  IF r = NoErr
         THEN /\ calls' = [calls EXCEPT ![i].trace = tr, ![i].pc = "done", ![i].chain = "fulfilled"]
              /\ refreshPending' = refreshPending + 1
         ELSE /\ calls' = [calls EXCEPT ![i].trace = Append(calls[i].trace, Call("refetch")),
                                        ![i].pc = "catch", ![i].err = r]
              /\ UNCHANGED refreshPending
  /\ UNCHANGED <<data, server, clicks, tags>>

\* .then(() => { toast.success(...); refetch(); }); refetch returns or throws r
ThenHandler(i, r) ==
  /\ calls[i].pc = "then"
  /\ LET tr == calls[i].trace \o <<Toast("success", Tr("checkedInSuccessfully")), Call("refetch")>>
     IN  IF r = NoErr
         THEN /\ calls' = [calls EXCEPT ![i].trace = tr, ![i].pc = "done", ![i].chain = "fulfilled"]
              /\ refreshPending' = refreshPending + 1
         ELSE /\ calls' = [calls EXCEPT ![i].trace = tr, ![i].pc = "catch", ![i].err = r]
              /\ UNCHANGED refreshPending
  /\ UNCHANGED <<data, server, clicks, tags>>

\* variant: only the generic error notification
CatchToastsGenericOnly(e) == <<Toast("error", Tr("errorCheckingIn"))>>

\* the notifications of .catch((err) => { toast.error(...); toast.error(err.message); })
CatchToasts(e) == <<Toast("error", Tr("errorCheckingIn")), Toast("error", e.message)>>

\* state of the promise chain once the .catch handler has run
ChainAfterCatch == "fulfilled"

CatchHandler(i) ==
  /\ calls[i].pc = "catch"
  /\ calls' = [calls EXCEPT ![i].trace = calls[i].trace \o CatchToasts(calls[i].err),
                            ![i].pc = "done", ![i].chain = ChainAfterCatch]
  /\ UNCHANGED <<data, server, refreshPending, clicks, tags>>

\* the owner of the list re-fetches and re-renders the row with the stored status
Refresh ==
  /\ refreshPending > 0
  /\ refreshPending' = refreshPending - 1
  /\ data' = [data EXCEPT !.checkIn = server]
  /\ UNCHANGED <<server, clicks, calls, tags>>

\* ---------------------------------------------------- notify / generateTag
\* variant: the name is tested without trimming
InvalidNameUntrimmed(v) == Falsy(v) \/ v.type # "string"

\* !data.name || typeof data.name !== 'string' || !data.name.trim()
InvalidName(v) == Falsy(v) \/ v.type # "string" \/ Falsy(JsString(Trim(v.chars)))

\* variant: the field carries the name as given
BuildInputsUntrimmed(v) ==
  <<[name |-> v.chars, type |-> "text", content |-> v.chars,
     position |-> [x |-> 10, y |-> 20], width |-> 200, height |-> 50,
     alignment |-> "center", fontSize |-> 12, dynamicFontSize |-> TRUE]>>

\* variant: the font size depends on the invocations made before
BuildInputsShrinking(v) ==
  <<[name |-> Trim(v.chars), type |-> "text", content |-> Trim(v.chars),
     position |-> [x |-> 10, y |-> 20], width |-> 200, height |-> 50,
     alignment |-> "center", fontSize |-> 12 - Len(tags), dynamicFontSize |-> TRUE]>>

\* the single schema input pushed into `inputs`
BuildInputs(v) ==
  <<[name |-> Trim(v.chars), type |-> "text", content |-> Trim(v.chars),
     position |-> [x |-> 10, y |-> 20], width |-> 200, height |-> 50,
     alignment |-> "center", fontSize |-> 12, dynamicFontSize |-> TRUE]>>

\* variant: the caught error's message is dropped
ErrorMessageUnknown(e) == <<"Unknown error">>

\* error instanceof Error ? error.message : 'Unknown error'
ErrorMessage(e) == IF e.isError THEN e.message ELSE <<"Unknown error">>

\* catch (error) { toast.error(`${t('pdfGenerationError')}: ${errorMessage}`); }
CatchBlock(tr, e) ==
  Append(tr, Toast("error", Tr("pdfGenerationError") \o <<": ">> \o ErrorMessage(e)))

\* variant: the catch block rethrows
PromiseAfterRethrow == "rejected"

\* state of generateTag's promise after its catch block has handled an error
PromiseAfterCatch == "fulfilled"

\* toast.promise: the terminal notification chosen from the promise's outcome
TerminalToast(promise) ==
  IF promise = "fulfilled" THEN Toast("success", Tr("pdfGenerated"))
  ELSE Toast("error", Tr("pdfGenerationError"))

\* generateTag up to its first await, started with the trace tr: the validation
\* error is caught at once, otherwise generate() is called and awaited
generateTag(tr) ==
  IF InvalidName(data.name)
  THEN [pc |-> "settled", promise |-> PromiseAfterCatch, genCalls |-> <<>>,
        failed |-> "validation", err |-> Err(Tr("invalidName")),
        trace |-> CatchBlock(tr, Err(Tr("invalidName")))]
  ELSE [pc |-> "awaitGenerate", promise |-> "pending",
        genCalls |-> <<[template |-> tagTemplate, inputs |-> BuildInputs(data.name)]>>,
        failed |-> "none", err |-> NoErr,
        trace |-> Append(tr, Call("generate"))]

\* variant: the pending toast is shown after generateTag was called
notifyPendingAfter ==
  /\ ShowsDownloadTag(data)
  /\ clicks + Len(tags) < MaxInvocations
  /\ tags' = Append(tags, [generateTag(<<>>) EXCEPT
                             !.trace = Append(@, Toast("pending", Tr("generatingPdf")))])
  /\ UNCHANGED <<data, server, refreshPending, clicks, calls>>

\* onClick={notify}: toast.promise shows the pending toast and calls generateTag
notify ==
  /\ ShowsDownloadTag(data)
  /\ clicks + Len(tags) < MaxInvocations
  /\ tags' = Append(tags, generateTag(<<Toast("pending", Tr("generatingPdf"))>>))
  /\ UNCHANGED <<data, server, refreshPending, clicks, calls>>

\* generate() rejects with e; the catch block reports it
GenerateRejects(j, e) ==
  /\ tags[j].pc = "awaitGenerate"
  /\ tags' = [tags EXCEPT ![j].pc = "settled", ![j].promise = PromiseAfterCatch,
                          ![j].failed = "generator", ![j].err = e,
                          ![j].trace = CatchBlock(tags[j].trace, e)]
  /\ UNCHANGED <<data, server, refreshPending, clicks, calls>>

\* variant: a delivered tag also asks the owner for a refresh
GenerateResolvesRefetches(j, at, e) ==
  /\ tags[j].pc = "awaitGenerate"
  /\ tags' = [tags EXCEPT ![j].pc = "settled", ![j].promise = "fulfilled",
         ![j].trace = tags[j].trace \o
            <<Call("blob"), Call("createObjectURL"), Call("open"), Call("refetch")>>]
  /\ refreshPending' = refreshPending + 1
  /\ UNCHANGED <<data, server, clicks, calls>>

\* generate() resolves with the pdf and generateTag continues:
\* new Blob(...); URL.createObjectURL(blob); window.open(url).
\* at = "ok", or the call that throws e
GenerateResolves(j, at, e) ==
  /\ tags[j].pc = "awaitGenerate"
  /\ LET tr == tags[j].trace
         done == IF at = "ok" THEN tr \o <<Call("blob"), Call("createObjectURL"), Call("open")>>
                 ELSE IF at = "open" THEN tr \o <<Call("blob"), Call("createObjectURL")>>
                 ELSE Append(tr, Call("blob"))
     IN  IF at = "ok"
         THEN tags' = [tags EXCEPT ![j].pc = "settled", ![j].promise = "fulfilled",
                                   ![j].trace = done]
         ELSE tags' = [tags EXCEPT ![j].pc = "settled", ![j].promise = PromiseAfterCatch,
                                   ![j].failed = "delivery", ![j].err = e,
                                   ![j].trace = CatchBlock(done, e)]
  /\ UNCHANGED <<data, server, refreshPending, clicks, calls>>

\* variant: the pending toast is replaced only when no step failed
ToastPromiseSettlesOnSuccessOnly(j) ==
  /\ tags[j].pc = "settled"
  /\ tags[j].failed = "none"
  /\ tags' = [tags EXCEPT ![j].pc = "done",
                          ![j].trace = Append(tags[j].trace, TerminalToast(tags[j].promise))]
  /\ UNCHANGED <<data, server, refreshPending, clicks, calls>>

\* toast.promise replaces the pending toast once generateTag's promise settles
ToastPromiseSettles(j) ==
  /\ tags[j].pc = "settled"
  /\ tags' = [tags EXCEPT ![j].pc = "done",
                          ![j].trace = Append(tags[j].trace, TerminalToast(tags[j].promise))]
  /\ UNCHANGED <<data, server, refreshPending, clicks, calls>>

\* ---------------------------------------------------------- specification
Init ==
  /\ data \in [userId : UserIds, eventId : EventIds, name : Names, checkIn : CheckInValues]
  /\ server = IF data.checkIn = Marker THEN Marker ELSE NULL
  /\ refreshPending = 0
  /\ clicks = 0
  /\ calls = <<>>
  /\ tags = <<>>

Next ==
  \/ markCheckIn
  \/ \E i \in 1..Len(calls) : MutationSucceeds(i)
  \/ \E i \in 1..Len(calls), e \in Errors : MutationFails(i, e)
  \/ \E i \in 1..Len(calls), r \in RefetchErrors \cup {NoErr} : ThenHandler(i, r)
  \/ \E i \in 1..Len(calls) : CatchHandler(i)
  \/ Refresh
  \/ notify
  \/ \E j \in 1..Len(tags), e \in Thrown : GenerateRejects(j, e)
  \/ \E j \in 1..Len(tags) : GenerateResolves(j, "ok", NoErr)
  \/ \E j \in 1..Len(tags), at \in {"createObjectURL", "open"}, e \in DeliveryErrors :
        GenerateResolves(j, at, e)
  \/ \E j \in 1..Len(tags) : ToastPromiseSettles(j)

Spec == Init /\ [][Next]_vars

\* the generator answers the j-th download-tag invocation, one way or the other
GeneratorResponds(j) ==
  /\ j \in 1..Len(tags)
  /\ \/ \E e \in Thrown : GenerateRejects(j, e)
     \/ GenerateResolves(j, "ok", NoErr)
     \/ \E at \in {"createObjectURL", "open"}, e \in DeliveryErrors : GenerateResolves(j, at, e)

\* the microtask of toast.promise for the j-th invocation is run
SettleRuns(j) == j \in 1..Len(tags) /\ ToastPromiseSettles(j)

\* the generator eventually responds and the event loop runs queued microtasks
Fairness ==
  \A j \in 1..MaxInvocations : WF_vars(GeneratorResponds(j)) /\ WF_vars(SettleRuns(j))

\* a row mounted with a check-in marker: only the download-tag button exists
TagInit == Init /\ data.checkIn = Marker /\ Len(data.name.chars) <= 1

TagNext ==
  \/ notify
  \/ \E j \in 1..Len(tags), e \in Thrown : GenerateRejects(j, e)
  \/ \E j \in 1..Len(tags) : GenerateResolves(j, "ok", NoErr)
  \/ \E j \in 1..Len(tags), at \in {"createObjectURL", "open"}, e \in DeliveryErrors :
        GenerateResolves(j, at, e)
  \/ \E j \in 1..Len(tags) : ToastPromiseSettles(j)

TagLiveSpec == TagInit /\ [][TagNext]_vars /\ Fairness

\* ------------------------------------------------------------- properties
Calls == 1..Len(calls)
Tags == 1..Len(tags)

\* a name that is missing, empty or made of whitespace only
BlankName(v) ==
  \/ v.type \in {"null", "undefined"}
  \/ v.type = "string" /\ \A k \in 1..Len(v.chars) : v.chars[k] \in Whitespace

\* c is s without its leading and trailing whitespace
IsTrimmed(c, s) ==
  /\ c # <<>>
  /\ c[1] \notin Whitespace
  /\ c[Len(c)] \notin Whitespace
  /\ \E a \in 0..Len(s) :
       /\ a + Len(c) <= Len(s)
       /\ SubSeq(s, a + 1, a + Len(c)) = c
       /\ \A k \in 1..Len(s) : (k <= a \/ k > a + Len(c)) => s[k] \in Whitespace

HandleCreated(j) == NumCalls(tags[j].trace, "createObjectURL") > 0
HandleOpened(j) == NumCalls(tags[j].trace, "open") > 0
GenerationFailedText(m) == <<"pdfGenerationError", ": ">> \o m

\* C1: every finished download-tag invocation has emitted exactly one pending
\* notification, first, and after it exactly one terminal notification: a success
\* or an error, never both and never neither.
C1_OnePendingOneTerminal ==
  \A j \in Tags :
    tags[j].pc = "done" =>
      /\ NumToasts(tags[j].trace, "pending") = 1
      /\ IsToast(tags[j].trace[1], "pending")
      /\ NumToasts(tags[j].trace, "success") + NumToasts(tags[j].trace, "error") = 1

\* C2: a download-tag invocation emits the success notification only if the
\* generator returned a payload and the handle was created and opened; an
\* invocation in which a step failed emits an error and no success notification.
C2_SuccessOnlyWhenDelivered ==
  \A j \in Tags :
    /\ NumToasts(tags[j].trace, "success") > 0 =>
         tags[j].failed = "none" /\ HandleCreated(j) /\ HandleOpened(j)
    /\ (tags[j].pc = "done" /\ tags[j].failed # "none") =>
         NumToasts(tags[j].trace, "error") > 0 /\ NumToasts(tags[j].trace, "success") = 0

\* C3: a finished markCheckIn invocation whose mutation succeeded has emitted
\* exactly one success notification and invoked refetch exactly once; one whose
\* mutation failed has emitted exactly two error notifications, the generic one
\* and the error's message, and never invoked refetch.
C3_CheckInNotifications ==
  \A i \in Calls :
    calls[i].pc = "done" =>
      /\ calls[i].mutation = "ok" =>
           /\ NumToasts(calls[i].trace, "success") = 1
           /\ NumCalls(calls[i].trace, "refetch") = 1
      /\ calls[i].mutation = "failed" =>
           /\ NumToasts(calls[i].trace, "error") = 2
           /\ NumCalls(calls[i].trace, "refetch") = 0
           /\ \E m \in Msgs :
                SubSeq(calls[i].trace, 2, Len(calls[i].trace)) =
                  <<Toast("error", <<"errorCheckingIn">>), Toast("error", m)>>

C3_Witness ==
  \E i, k \in Calls :
    /\ calls[i].pc = "done" /\ calls[i].mutation = "ok"
    /\ calls[k].pc = "done" /\ calls[k].mutation = "failed"

\* C4: with a missing, empty or whitespace-only name generateTag reports the
\* validation error and never calls the generator, creates no handle and opens
\* nothing.
C4_BlankNameNeverGenerates ==
  \A j \in Tags :
    BlankName(data.name) =>
      /\ tags[j].genCalls = <<>>
      /\ NumCalls(tags[j].trace, "generate") = 0
      /\ ~HandleCreated(j) /\ ~HandleOpened(j)
      /\ tags[j].trace[2] = Toast("error", GenerationFailedText(<<"invalidName">>))

C4_Witness ==
  \E j \in Tags :
    /\ data.name.type = "string" /\ Len(data.name.chars) > 1 /\ BlankName(data.name)
    /\ tags[j].pc = "done"

\* C5: the check-in button is rendered exactly when checkIn is absent or null,
\* the download-tag button exactly when checkIn is a non-null marker, and
\* exactly one of the two is rendered.
C5_AffordanceByStatus ==
  /\ ShowsCheckIn(data) <=> data.checkIn \in {NULL, UNDEFINED}
  /\ ShowsDownloadTag(data) <=> data.checkIn \notin {NULL, UNDEFINED}
  /\ ShowsCheckIn(data) # ShowsDownloadTag(data)

\* C6: the row goes from NOT_CHECKED_IN to CHECKED_IN only in a step that
\* delivers a requested refresh, after some markCheckIn invocation's mutation
\* succeeded and invoked refetch; no step of a markCheckIn invocation, the
\* failure handler included, changes the record.
C6_TransitionOnlyByRefresh ==
  [][/\ (RowState(data) = "NOT_CHECKED_IN" /\ RowState(data') = "CHECKED_IN") =>
          /\ refreshPending' = refreshPending - 1
          /\ calls' = calls
          /\ \E i \in Calls :
               calls[i].mutation = "ok" /\ NumCalls(calls[i].trace, "refetch") = 1
     /\ calls' # calls => data' = data]_vars

C6_Witness ==
  /\ RowState(data) = "CHECKED_IN"
  /\ \E i, k \in Calls :
       /\ calls[i].mutation = "ok" /\ calls[i].pc = "done"
       /\ calls[k].mutation = "failed" /\ calls[k].pc = "done"

\* C7: when the generator rejects with an Error carrying message m, the
\* invocation emits the error notification "<generation failed>: m" and creates
\* and opens no handle.
C7_GeneratorRejectionReported ==
  \A j \in Tags :
    (tags[j].failed = "generator" /\ tags[j].err.isError) =>
      /\ \E k \in 1..Len(tags[j].trace) :
           tags[j].trace[k] = Toast("error", GenerationFailedText(tags[j].err.message))
      /\ ~HandleCreated(j) /\ ~HandleOpened(j)

C7_Witness ==
  \E j \in Tags :
    /\ tags[j].failed = "generator"
    /\ tags[j].err = Err(<<"template malformed">>)
    /\ tags[j].pc = "done"

\* C8: no promise of a markCheckIn or generateTag invocation ends rejected, and
\* every failure met by an invocation is followed by an error notification of
\* that invocation.
C8_NoUncaughtFailure ==
  /\ \A i \in Calls :
       /\ calls[i].chain # "rejected"
       /\ (calls[i].pc = "done" /\ calls[i].err # NoErr) =>
            NumToasts(calls[i].trace, "error") > 0
  /\ \A j \in Tags :
       /\ tags[j].promise # "rejected"
       /\ tags[j].failed # "none" => NumToasts(tags[j].trace, "error") > 0

C8_Witness ==
  /\ \E i \in Calls : calls[i].pc = "done" /\ calls[i].mutation = "failed"
  /\ \E j \in Tags : tags[j].pc = "done" /\ tags[j].failed = "delivery"

\* C9: for a name that is a string with a non-whitespace character, the
\* invocation calls the generator exactly once, with the static template and
\* exactly one text field whose content is the name without its leading and
\* trailing whitespace.
C9_GeneratorInput ==
  \A j \in Tags :
    (data.name.type = "string" /\ ~BlankName(data.name)) =>
      /\ Len(tags[j].genCalls) = 1
      /\ NumCalls(tags[j].trace, "generate") = 1
      /\ tags[j].genCalls[1].template = tagTemplate
      /\ Len(tags[j].genCalls[1].inputs) = 1
      /\ tags[j].genCalls[1].inputs[1].type = "text"
      /\ IsTrimmed(tags[j].genCalls[1].inputs[1].content, data.name.chars)

C9_Witness ==
  \E j \in Tags :
    /\ data.name = JsString(<<" ", "a", " ">>)
    /\ tags[j].genCalls[1].inputs[1].content = <<"a">>
    /\ tags[j].pc = "done"

\* C10: the mutation requests issued are as many as the clicks on the check-in
\* button, one per click, each carrying the record's userId and eventId.
C10_OneRequestPerClick ==
  /\ Len(calls) = clicks
  /\ \A i \in Calls :
       /\ calls[i].vars = [userId |-> data.userId, eventId |-> data.eventId]
       /\ NumCalls(calls[i].trace, "mutate") = 1

C10_Witness ==
  /\ clicks = 3
  /\ calls[1].pc = "done" /\ calls[1].mutation = "failed"
  /\ calls[2].pc = "inflight" /\ calls[3].pc = "inflight"

IsTerminalToast(e) == IsToast(e, "success") \/ IsToast(e, "error")

\* C11: all generateTag invocations on the record that reach the generator pass
\* field inputs with the same content and the same layout parameters, whatever
\* the outcome of the other invocations.
C11_SameInputsEveryCall ==
  \A j, k \in Tags :
    (tags[j].genCalls # <<>> /\ tags[k].genCalls # <<>>) =>
      tags[j].genCalls[1].inputs = tags[k].genCalls[1].inputs

C11_Witness ==
  \E j, k \in Tags :
    /\ j < k
    /\ tags[j].pc = "done" /\ tags[j].failed = "generator"
    /\ tags[k].pc = "awaitGenerate"
    /\ tags[j].genCalls[1].inputs = tags[k].genCalls[1].inputs

\* C12: in one download-tag invocation the pending notification comes first,
\* before the generator is called; while the generator call is in flight no
\* success or error notification exists, and every one emitted comes after the
\* generator call in the invocation's trace.
C12_PendingGenerateTerminalOrder ==
  \A j \in Tags :
    LET T == tags[j].trace
    IN  /\ IsToast(T[1], "pending")
        /\ \A k \in 2..Len(T) : ~IsToast(T[k], "pending")
        /\ tags[j].pc = "awaitGenerate" => \A k \in 1..Len(T) : ~IsTerminalToast(T[k])
        /\ \A a, b \in 1..Len(T) :
             (T[a].ev = "generate" /\ IsTerminalToast(T[b])) => a < b

C12_Witness ==
  \E j \in Tags :
    /\ tags[j].pc = "done"
    /\ NumCalls(tags[j].trace, "generate") = 1
    /\ NumCalls(tags[j].trace, "open") = 1

FailedCall(i) == calls[i].pc = "done" /\ calls[i].mutation = "failed"
RefetchedCall(k) == calls[k].mutation = "ok" /\ NumCalls(calls[k].trace, "refetch") = 1

\* C13 as stated: once a markCheckIn invocation has failed the row shows the
\* check-in button, after any interleaving of clicks, responses and refreshes.
C13_FailedCallKeepsCheckIn ==
  \A i \in Calls : FailedCall(i) => ShowsCheckIn(data)

\* C13 amended: once a markCheckIn invocation has failed the row shows the
\* check-in button, unless another invocation's mutation succeeded and asked
\* for the refresh.
C13_FailedCallKeepsCheckInUnlessRefreshed ==
  \A i \in Calls :
    FailedCall(i) =>
      \/ ShowsCheckIn(data)
      \/ \E k \in Calls \ {i} : RefetchedCall(k)

C13_Witness ==
  \E i, k \in Calls :
    /\ i < k
    /\ FailedCall(i)
    /\ calls[k].pc = "inflight"
    /\ ShowsCheckIn(data)

\* C14: in a markCheckIn invocation refetch is called only after the mutation
\* responded successfully, and the success notification precedes the call.
C14_SuccessToastBeforeRefetch ==
  \A i \in Calls :
    LET T == calls[i].trace
    IN  \A b \in 1..Len(T) :
          T[b].ev = "refetch" =>
            /\ calls[i].mutation = "ok"
            /\ \E a \in 1..(b - 1) : IsToast(T[a], "success")

C14_Witness ==
  \E i \in Calls :
    /\ calls[i].pc = "done"
    /\ calls[i].chain = "fulfilled"
    /\ NumCalls(calls[i].trace, "refetch") = 1
    /\ NumToasts(calls[i].trace, "error") = 0

\* C15: a step of a download-tag invocation issues no mutation, calls no
\* refetch and leaves the record, the stored status and the markCheckIn
\* invocations as they were.
C15_GenerateTagFrame ==
  [][tags' # tags =>
       /\ data' = data
       /\ server' = server
       /\ refreshPending' = refreshPending
       /\ clicks' = clicks
       /\ calls' = calls
       /\ \A j \in 1..Len(tags') :
            /\ NumCalls(tags'[j].trace, "mutate") = 0
            /\ NumCalls(tags'[j].trace, "refetch") = 0]_vars

C15_Witness ==
  /\ clicks = 1
  /\ data.checkIn = Marker
  /\ \E j, k \in Tags :
       /\ tags[j].pc = "done" /\ tags[j].failed = "none"
       /\ tags[k].pc = "done" /\ tags[k].failed = "delivery"

\* C16: under TagLiveSpec every download-tag invocation, also one started while
\* others are in flight, eventually ends with a terminal notification of its
\* own as the last entry of its trace.
C16_EveryInvocationTerminates ==
  \A j \in 1..MaxInvocations :
    (j \in Tags) ~>
      (j \in Tags /\ tags[j].pc = "done" /\ IsTerminalToast(tags[j].trace[Len(tags[j].trace)]))

C16_Witness ==
  \E j, k \in Tags :
    /\ j < k
    /\ tags[j].pc = "awaitGenerate"
    /\ tags[k].pc = "done" /\ tags[k].failed = "generator"

\* C17: in a markCheckIn invocation error notifications appear only if the
\* mutation failed, and never together with the success notification.
C17_ErrorsOnlyWhenMutationFailed ==
  \A i \in Calls :
    NumToasts(calls[i].trace, "error") > 0 =>
      /\ calls[i].mutation = "failed"
      /\ NumToasts(calls[i].trace, "success") = 0
====
